---- MODULE Spec2Model ----
(***************************************************************************)
(* Model of the document-ingestion pipeline of kollektiv:                  *)
(*   src/document_ingestion/processing/chunking.py                         *)
(*     SummaryGenerator  - semaphore-bounded concurrent summarisation      *)
(*     HeadingCollector  - heading-scoped segmentation of a block sequence *)
(***************************************************************************)
EXTENDS Integers, Sequences, FiniteSets, TLC

(* ---- bounds of the model ---- *)
MaxLimit == 2
MaxChunks == 2
MaxThrottle == 1
MaxBlocks == 4
MaxContentLen == 5
MaxTokens == 2
MaxSizes == 2
MaxPages == 2
MaxTurns == 2
MaxResponseBlocks == 2

VARIABLES
    max_concurrent_requests, \* SummaryGenerator.max_concurrent_requests
    gsPc,          \* position of generate_summaries: "idle", "gather", "returned"
    chunks,        \* the batch passed to generate_summaries (dicts mutated in place)
    input,         \* the batch as it was when generate_summaries was called
    plan,          \* completion service: how many times it throttles each chunk
    final,         \* completion service: its answer after the throttles, "ok" or "fail"
    attempts,      \* calls issued so far for each chunk
    pc,            \* position of each chunk's task
    held,          \* frames of each chunk's task that are inside `async with semaphore`
    sem_value,     \* asyncio.Semaphore._value
    waiters,       \* asyncio.Semaphore._waiters (FIFO)
    writes,        \* number of assignments made to each chunk's summary
    completed,     \* task indices in the order the tasks finished
    result         \* the list returned by generate_summaries

sumVars == <<max_concurrent_requests, gsPc, chunks, input, plan, final, attempts,
             pc, held, sem_value, waiters, writes, completed, result>>

VARIABLES
    root,          \* the block elements handed to HeadingCollector.run
    hcPc,          \* position of run: "walk" or "done"
    hcPos,         \* index of the next element of root
    hc_chunks,     \* HeadingCollector.chunks
    current_chunk, \* HeadingCollector.current_chunk: <<>> is None, <<c>> a dict
    h1_count,
    h2_count,
    h3_count

hcVars == <<root, hcPc, hcPos, hc_chunks, current_chunk, h1_count, h2_count, h3_count>>

VARIABLES
    encoder,         \* TokenCounter.encoder: the tokenisation scheme in use
    min_tokens,      \* ChunkProcessor.min_tokens
    max_tokens,      \* ChunkProcessor.max_tokens
    cpPc,            \* position of process_chunk: "idle", "split", "done"
    segment,         \* the `chunk` argument of process_chunk
    processed_chunk, \* the dict built by process_chunk
    sentences,       \* split_large_chunk: content.split('. ')
    sIdx,            \* split_large_chunk: index of the next sentence
    current_content, \* split_large_chunk: the buffer
    splits,          \* split_large_chunk: the emitted contents
    split_units,     \* the sentences each emitted content was built from
    out,             \* the list returned by process_chunk
    next_uuid        \* the next value uuid.uuid4() yields

cpVars == <<encoder, min_tokens, max_tokens, cpPc, segment, processed_chunk, sentences,
            sIdx, current_content, splits, split_units, out, next_uuid>>

VARIABLES
    histPc,            \* position of the statistics: "start" or "done"
    chunk_sizes,       \* main: len(chunk['content']) of every chunk of the run
    size_distribution  \* main: the count of each size range, in range order

histVars == <<histPc, chunk_sizes, size_distribution>>

VARIABLES
    raw_data,             \* main: raw_data['data'], the pages of the run
    mainPc,               \* position of main
    pageIdx,              \* index of the page of the current iteration
    page_segments,        \* main: md.heading_collector.chunks of the page
    page_h1,              \* main: md.heading_collector.h1_count of the page
    page_h2,              \* main: md.heading_collector.h2_count of the page
    segIdx,               \* index of the next segment of the inner loop
    processed_chunks,     \* main: processed_chunks of the page
    summarized_chunks,    \* main: summarized_chunks of the page
    all_processed_chunks, \* main: all_processed_chunks
    discarded_ids,        \* ids generated for chunks that were replaced by parts
    log,                  \* what the validation of the pages logged
    saved_output          \* the content of the output file, <<>> before it is written

mainVars == <<raw_data, mainPc, pageIdx, page_segments, page_h1, page_h2, segIdx,
              processed_chunks, summarized_chunks, all_processed_chunks,
              discarded_ids, log, saved_output>>

VARIABLES
    conversation_history, \* ClaudeAssistant.conversation_history
    caPc,                 \* position of generate_response
    turns,                \* calls of generate_response so far
    user_input,           \* generate_response: user_input
    messages,             \* generate_response: messages
    response,             \* generate_response: the first response of the model
    blockIdx,             \* index of the next block of response.content in the loop
    assistant_response,   \* generate_response: assistant_response
    returned              \* the value the last call of generate_response returned

caVars == <<conversation_history, caPc, turns, user_input, messages, response,
            blockIdx, assistant_response, returned>>

vars == <<sumVars, hcVars, cpVars, histVars, mainVars, caVars>>

(* ---- data ---- *)

\* a chunk as built by ChunkProcessor.process_chunk; ids are arbitrary and
\* carry no relation to the position in the batch
NewChunk(i, n) ==
    [chunk_id |-> 100 + (n - i), source_url |-> "url", main_heading |-> "heading",
     content |-> "content", summary |-> ""]

\* response.content[0].text of a successful completion for a chunk
ResponseText(chunk) == "summary of " \o ToString(chunk.chunk_id)

Range(s) == {s[k] : k \in 1..Len(s)}

RECURSIVE RemoveFirst(_, _)
RemoveFirst(s, x) ==
    IF s = <<>> THEN <<>>
    ELSE IF Head(s) = x THEN Tail(s)
    ELSE <<Head(s)>> \o RemoveFirst(Tail(s), x)

(* ---- asyncio.Semaphore, as a record [value, waiters, pc] ---- *)

SemState == [value |-> sem_value, waiters |-> waiters, pc |-> pc]

\* Locked that only looks at the queue of waiters, not at the counter
LockedIgnoringValue(S) == Len(S.waiters) > 0

Locked(S) == S.value = 0 \/ Len(S.waiters) > 0

WakeUpNext(S) ==
    LET pending == {k \in 1..Len(S.waiters) : S.pc[S.waiters[k]] = "waiting"}
    IN IF pending = {} THEN S
       ELSE LET k == CHOOSE k \in pending : \A j \in pending : k <= j
            IN [S EXCEPT !.value = @ - 1, !.pc[S.waiters[k]] = "woken"]

Release(S) == WakeUpNext([S EXCEPT !.value = @ + 1])

RECURSIVE ReleaseN(_, _)
ReleaseN(S, k) == IF k = 0 THEN S ELSE ReleaseN(Release(S), k - 1)

(* ---- SummaryGenerator._process_chunk ---- *)

\* which except clause handles the outcome of the call for chunk i
Outcome(i) == IF attempts[i] <= plan[i] THEN "throttle" ELSE final[i]

\* only the frame that made the answered call leaves its `async with`
SlotsReleasedInnermostOnly(h) == IF h > 0 THEN 1 ELSE 0

\* slots given back while the frames of a finished task unwind: every frame
\* leaves its own `async with`
SlotsReleasedOnReturn(h) == h

\* a handler that stores the error text in the summary
FailureSummaryErrorText(chunk) == "error in " \o ToString(chunk.chunk_id)

\* value assigned to chunk['summary'] by the `except Exception` handler
FailureSummary(chunk) == ""

\* `async with semaphore:` entered by a frame of task i that is running
\* (first call, or the recursive call after the backoff sleep)
EnterSemaphore(i) ==
    IF ~Locked(SemState)
    THEN /\ sem_value' = sem_value - 1
         /\ held' = [held EXCEPT ![i] = @ + 1]
         /\ pc' = [pc EXCEPT ![i] = "call"]
         /\ attempts' = [attempts EXCEPT ![i] = @ + 1]
         /\ UNCHANGED waiters
    ELSE /\ waiters' = Append(waiters, i)
         /\ pc' = [pc EXCEPT ![i] = "waiting"]
         /\ UNCHANGED <<sem_value, held, attempts>>

\* a finish that stores the text in the content of the chunk as well
FinishTaskOverwritesContent(i, summary) ==
    LET S == ReleaseN([SemState EXCEPT !.pc[i] = "done"], SlotsReleasedOnReturn(held[i]))
    IN /\ chunks' = [chunks EXCEPT ![i].summary = summary, ![i].content = summary]
       /\ writes' = [writes EXCEPT ![i] = @ + 1]
       /\ sem_value' = S.value
       /\ pc' = S.pc
       /\ held' = [held EXCEPT ![i] = @ - SlotsReleasedOnReturn(@)]
       /\ completed' = Append(completed, i)
       /\ UNCHANGED <<waiters, attempts>>

\* the task finishes: all its frames leave `async with`, innermost first
FinishTask(i, summary) ==
    LET S == ReleaseN([SemState EXCEPT !.pc[i] = "done"], SlotsReleasedOnReturn(held[i]))
    IN /\ chunks' = [chunks EXCEPT ![i].summary = summary]
       /\ writes' = [writes EXCEPT ![i] = @ + 1]
       /\ sem_value' = S.value
       /\ pc' = S.pc
       /\ held' = [held EXCEPT ![i] = @ - SlotsReleasedOnReturn(@)]
       /\ completed' = Append(completed, i)
       /\ UNCHANGED <<waiters, attempts>>

(* ---- SummaryGenerator.generate_summaries ---- *)

\* a wait that ends with the first finished awaitable
GatherReadyFirstCompleted ==
    Len(chunks) = 0 \/ \E i \in 1..Len(chunks) : pc[i] = "done"

\* gather resumes its caller once every awaitable has finished
GatherReady == \A i \in 1..Len(chunks) : pc[i] = "done"

\* results handed back in completion order
GatherResultAsCompleted(done, cs) == [k \in 1..Len(done) |-> cs[done[k]]]

\* tqdm_asyncio.gather: (index, result) pairs are collected in completion
\* order, sorted by index, and the results returned
GatherResult(done, cs) ==
    LET res == [k \in 1..Len(done) |-> <<done[k], cs[done[k]]>>]
        Rank(k) == Cardinality({j \in 1..Len(res) : res[j][1] < res[k][1]}) + 1
    IN [p \in 1..Len(res) |-> res[CHOOSE k \in 1..Len(res) : Rank(k) = p][2]]

GenerateSummaries(n, pl, fi) ==
    /\ gsPc = "idle"
    /\ gsPc' = "gather"
    /\ chunks' = [i \in 1..n |-> NewChunk(i, n)]
    /\ input' = [i \in 1..n |-> NewChunk(i, n)]
    /\ plan' = pl
    /\ final' = fi
    /\ attempts' = [i \in 1..n |-> 0]
    /\ pc' = [i \in 1..n |-> "new"]
    /\ held' = [i \in 1..n |-> 0]
    /\ writes' = [i \in 1..n |-> 0]
    /\ sem_value' = max_concurrent_requests
    /\ waiters' = <<>>
    /\ completed' = <<>>
    /\ UNCHANGED <<max_concurrent_requests, result>>

StartTask(i) ==
    /\ gsPc = "gather"
    /\ pc[i] = "new"
    /\ EnterSemaphore(i)
    /\ UNCHANGED <<max_concurrent_requests, gsPc, chunks, input, plan, final,
                   writes, completed, result>>

\* a task parked in Semaphore.acquire is resumed after _wake_up_next
ResumeWaiter(i) ==
    /\ gsPc = "gather"
    /\ pc[i] = "woken"
    /\ LET S0 == [value |-> sem_value, waiters |-> RemoveFirst(waiters, i),
                  pc |-> [pc EXCEPT ![i] = "call"]]
           S == IF S0.value > 0 THEN WakeUpNext(S0) ELSE S0
       IN /\ sem_value' = S.value
          /\ waiters' = S.waiters
          /\ pc' = S.pc
    /\ held' = [held EXCEPT ![i] = @ + 1]
    /\ attempts' = [attempts EXCEPT ![i] = @ + 1]
    /\ UNCHANGED <<max_concurrent_requests, gsPc, chunks, input, plan, final,
                   writes, completed, result>>

CallSucceeds(i) ==
    /\ gsPc = "gather"
    /\ pc[i] = "call"
    /\ Outcome(i) = "ok"
    /\ FinishTask(i, ResponseText(chunks[i]))
    /\ UNCHANGED <<max_concurrent_requests, gsPc, input, plan, final, result>>

\* a throttle handler that blanks the summary before it sleeps
CallThrottledWritesSummary(i) ==
    /\ gsPc = "gather"
    /\ pc[i] = "call"
    /\ Outcome(i) = "throttle"
    /\ pc' = [pc EXCEPT ![i] = "sleep"]
    /\ chunks' = [chunks EXCEPT ![i].summary = ""]
    /\ writes' = [writes EXCEPT ![i] = @ + 1]
    /\ UNCHANGED <<max_concurrent_requests, gsPc, input, plan, final, attempts,
                   held, sem_value, waiters, completed, result>>

\* `except RateLimitError`: the frame starts its sleep inside `async with`
CallThrottled(i) ==
    /\ gsPc = "gather"
    /\ pc[i] = "call"
    /\ Outcome(i) = "throttle"
    /\ pc' = [pc EXCEPT ![i] = "sleep"]
    /\ UNCHANGED <<max_concurrent_requests, gsPc, chunks, input, plan, final, attempts,
                   held, sem_value, waiters, writes, completed, result>>

BackoffElapsed(i) ==
    /\ gsPc = "gather"
    /\ pc[i] = "sleep"
    /\ EnterSemaphore(i)
    /\ UNCHANGED <<max_concurrent_requests, gsPc, chunks, input, plan, final,
                   writes, completed, result>>

CallFails(i) ==
    /\ gsPc = "gather"
    /\ pc[i] = "call"
    /\ Outcome(i) = "fail"
    /\ FinishTask(i, FailureSummary(chunks[i]))
    /\ UNCHANGED <<max_concurrent_requests, gsPc, input, plan, final, result>>

ReturnSummaries ==
    /\ gsPc = "gather"
    /\ GatherReady
    /\ gsPc' = "returned"
    /\ result' = GatherResult(completed, chunks)
    /\ UNCHANGED <<max_concurrent_requests, chunks, input, plan, final, attempts,
                   pc, held, sem_value, waiters, writes, completed>>

(* ---- HeadingCollector.run ---- *)

Tags == {"h1", "h2", "h3", "p"}

\* element.text of the k-th element of a tree
Texts == <<"t1", "t2", "t3", "t4", "t5", "t6", "t7", "t8">>

Element(tag, k) == [tag |-> tag, text |-> Texts[k]]

\* the trees with the given tags, every element carrying its own text
Trees(n) == {[k \in 1..n |-> Element(ts[k], k)] : ts \in [1..n -> Tags]}

\* etree.tostring(element, encoding='unicode'): the markup of the element
Serialize(e) == <<"<" \o e.tag \o ">", e.text, "</" \o e.tag \o ">">>

\* int(element.tag[1])
Level(tag) == IF tag = "h1" THEN 1 ELSE 2

\* a heading test that also takes h3
OpensSegmentWithH3(tag) == tag \in {"h1", "h2", "h3"}

\* `element.tag in ['h1', 'h2']`
OpensSegment(tag) == tag \in {"h1", "h2"}

\* a truth test on the accumulated content instead of the dict
TruthyContent(c) == c # <<>> /\ c[1].content # <<>>

\* truth value of current_chunk: None is false, a dict with keys is true
Truthy(c) == c # <<>>

\* content before the first heading collected in an implicit segment
AppendBlockImplicit(c, e) ==
    IF c # <<>> THEN <<[c[1] EXCEPT !.content = @ \o Serialize(e)]>>
    ELSE <<[main_heading |-> "", content |-> Serialize(e), level |-> 0]>>

\* `current_chunk['content'] += tostring(element)` under `is not None`
AppendBlock(c, e) ==
    IF c # <<>> THEN <<[c[1] EXCEPT !.content = @ \o Serialize(e)]>> ELSE c

OnHeading ==
    /\ hcPc = "walk"
    /\ hcPos <= Len(root)
    /\ OpensSegment(root[hcPos].tag)
    /\ hc_chunks' = IF Truthy(current_chunk) THEN hc_chunks \o current_chunk ELSE hc_chunks
    /\ current_chunk' = <<[main_heading |-> root[hcPos].text, content |-> <<>>,
                           level |-> Level(root[hcPos].tag)]>>
    /\ IF root[hcPos].tag = "h1"
       THEN h1_count' = h1_count + 1 /\ UNCHANGED h2_count
       ELSE h2_count' = h2_count + 1 /\ UNCHANGED h1_count
    /\ hcPos' = hcPos + 1
    /\ UNCHANGED <<root, hcPc, h3_count>>

OnH3 ==
    /\ hcPc = "walk"
    /\ hcPos <= Len(root)
    /\ ~OpensSegment(root[hcPos].tag)
    /\ root[hcPos].tag = "h3"
    /\ h3_count' = h3_count + 1
    /\ current_chunk' = AppendBlock(current_chunk, root[hcPos])
    /\ hcPos' = hcPos + 1
    /\ UNCHANGED <<root, hcPc, hc_chunks, h1_count, h2_count>>

OnOtherBlock ==
    /\ hcPc = "walk"
    /\ hcPos <= Len(root)
    /\ ~OpensSegment(root[hcPos].tag)
    /\ root[hcPos].tag # "h3"
    /\ current_chunk' = AppendBlock(current_chunk, root[hcPos])
    /\ hcPos' = hcPos + 1
    /\ UNCHANGED <<root, hcPc, hc_chunks, h1_count, h2_count, h3_count>>

EndOfInput ==
    /\ hcPc = "walk"
    /\ hcPos > Len(root)
    /\ hc_chunks' = IF Truthy(current_chunk) THEN hc_chunks \o current_chunk ELSE hc_chunks
    /\ hcPc' = "done"
    /\ UNCHANGED <<root, hcPos, current_chunk, h1_count, h2_count, h3_count>>

(* ---- text: a string is the sequence of its characters ---- *)

Chars == {"a", ".", " "}

Texts0(n) == UNION {[1..k -> Chars] : k \in 0..n}

RECURSIVE LStrip(_)
LStrip(t) == IF t # <<>> /\ Head(t) = " " THEN LStrip(Tail(t)) ELSE t

RECURSIVE RStrip(_)
RStrip(t) ==
    IF t # <<>> /\ t[Len(t)] = " " THEN RStrip(SubSeq(t, 1, Len(t) - 1)) ELSE t

\* str.strip()
Strip(t) == RStrip(LStrip(t))

RECURSIVE SplitFrom(_, _)
SplitFrom(t, unit) ==
    IF t = <<>> THEN <<unit>>
    ELSE IF Len(t) >= 2 /\ t[1] = "." /\ t[2] = " "
         THEN <<unit>> \o SplitFrom(SubSeq(t, 3, Len(t)), <<>>)
         ELSE SplitFrom(Tail(t), Append(unit, Head(t)))

\* str.split('. ')
SplitOnDelimiter(t) == SplitFrom(t, <<>>)

Delimiter == <<".", " ">>

(* ---- TokenCounter.count_tokens ---- *)

Encoders == {"char", "word"}

\* "char": every character is a token; "word": only letters are tokens, the
\* delimiter costs nothing
CountTokens(enc, t) ==
    IF enc = "char" THEN Len(t)
    ELSE Cardinality({k \in 1..Len(t) : t[k] \notin {".", " "}})

(* ---- ChunkProcessor.process_chunk / split_large_chunk ---- *)

Headings == <<"Intro", "Usage">>
Urls == <<"url1", "url2">>

\* the segments HeadingCollector can hand over: any heading, any text
Segments == {[main_heading |-> Headings[d], content |-> c, level |-> d] :
                d \in 1..2, c \in Texts0(MaxContentLen)}

\* a test that also splits a chunk exactly at the budget
NeedsSplitAtBudget(count, max) == count >= max

\* `token_count > self.max_tokens`
NeedsSplit(count, max) == count > max

\* a 0-based part number
PartHeadingFromZero(heading, i) == heading \o " (Part " \o ToString(i - 1) \o ")"

\* f"{chunk['main_heading']} (Part {i + 1})" for the i-th split, i = 1, 2, ...
PartHeading(heading, i) == heading \o " (Part " \o ToString(i) \o ")"

\* a part that keeps the id of the chunk it was cut from
PartIdOfParent(parent, fresh) == parent.chunk_id

\* "chunk_id": str(uuid.uuid4()) of a part
PartId(parent, fresh) == fresh

\* a flush that starts the new buffer empty
BufferAfterFlushEmpty(sentence) == <<>>

\* `current_content = sentence + '. '` after a flush
BufferAfterFlush(sentence) == sentence \o Delimiter

\* `count_tokens(current_content + sentence) > self.max_tokens`
ExceedsBudget(enc, max, buffer, sentence) ==
    CountTokens(enc, buffer \o sentence) > max

\* the dict built at the start of process_chunk
NewProcessedChunk(seg, url, id) ==
    [chunk_id |-> id, source_url |-> url, main_heading |-> seg.main_heading,
     content |-> Strip(seg.content), summary |-> ""]

\* one iteration of the loop of split_large_chunk over
\* st = [current_content, splits, split_units]
SplitStep(enc, max, st, sentence) ==
    IF ExceedsBudget(enc, max, st.current_content, sentence)
    THEN IF st.current_content # <<>>
         THEN [current_content |-> BufferAfterFlush(sentence),
               splits |-> Append(st.splits, Strip(st.current_content)),
               split_units |-> IF BufferAfterFlush(sentence) = <<>> THEN st.split_units
                               ELSE Append(st.split_units, <<sentence>>)]
         ELSE [current_content |-> st.current_content,
               splits |-> Append(st.splits, Strip(sentence)),
               split_units |-> Append(st.split_units, <<sentence>>)]
    ELSE [current_content |-> st.current_content \o sentence \o Delimiter,
          splits |-> st.splits,
          split_units |-> IF st.current_content = <<>>
                          THEN Append(st.split_units, <<sentence>>)
                          ELSE [st.split_units EXCEPT ![Len(st.split_units)] =
                                    Append(@, sentence)]]

\* `if current_content: splits.append(current_content.strip())` after the loop
FinalSplits(st) ==
    IF st.current_content # <<>>
    THEN Append(st.splits, Strip(st.current_content)) ELSE st.splits

\* the list comprehension that turns the splits into chunks; uuid0 is the
\* first fresh identifier
BuildParts(chunk, all, uuid0) ==
    [i \in 1..Len(all) |->
        [chunk_id |-> PartId(chunk, uuid0 + i - 1),
         source_url |-> chunk.source_url,
         main_heading |-> PartHeading(chunk.main_heading, i),
         content |-> all[i], summary |-> ""]]

SplitState == [current_content |-> current_content, splits |-> splits,
               split_units |-> split_units]

ProcessChunk(seg, url) ==
    /\ cpPc = "idle"
    /\ LET pchunk == NewProcessedChunk(seg, url, next_uuid)
       IN /\ segment' = seg
          /\ processed_chunk' = pchunk
          /\ next_uuid' = next_uuid + 1
          /\ IF NeedsSplit(CountTokens(encoder, pchunk.content), max_tokens)
             THEN /\ cpPc' = "split"
                  /\ sentences' = SplitOnDelimiter(pchunk.content)
                  /\ out' = <<>>
             ELSE /\ cpPc' = "done"
                  /\ sentences' = <<>>
                  /\ out' = <<pchunk>>
    /\ sIdx' = 1
    /\ current_content' = <<>>
    /\ splits' = <<>>
    /\ split_units' = <<>>
    /\ UNCHANGED <<encoder, min_tokens, max_tokens>>

\* one sentence of the loop is handled
SplitLoopStep ==
    /\ sIdx' = sIdx + 1
    /\ LET st == SplitStep(encoder, max_tokens, SplitState, sentences[sIdx])
       IN /\ current_content' = st.current_content
          /\ splits' = st.splits
          /\ split_units' = st.split_units
    /\ UNCHANGED <<encoder, min_tokens, max_tokens, cpPc, segment, processed_chunk,
                   sentences, out, next_uuid>>

\* the buffer is full: it is emitted and the sentence starts the next buffer
SentenceFlushesBuffer ==
    /\ cpPc = "split"
    /\ sIdx <= Len(sentences)
    /\ ExceedsBudget(encoder, max_tokens, current_content, sentences[sIdx])
    /\ current_content # <<>>
    /\ SplitLoopStep

\* the sentence alone is over the budget: it is emitted on its own
SentenceEmittedAlone ==
    /\ cpPc = "split"
    /\ sIdx <= Len(sentences)
    /\ ExceedsBudget(encoder, max_tokens, current_content, sentences[sIdx])
    /\ current_content = <<>>
    /\ SplitLoopStep

SentenceAppended ==
    /\ cpPc = "split"
    /\ sIdx <= Len(sentences)
    /\ ~ExceedsBudget(encoder, max_tokens, current_content, sentences[sIdx])
    /\ SplitLoopStep

\* end of the loop: the last buffer is emitted and the parts are built
SplitReturns ==
    /\ cpPc = "split"
    /\ sIdx > Len(sentences)
    /\ splits' = FinalSplits(SplitState)
    /\ out' = BuildParts(processed_chunk, FinalSplits(SplitState), next_uuid)
    /\ next_uuid' = next_uuid + Len(FinalSplits(SplitState))
    /\ cpPc' = "done"
    /\ UNCHANGED <<encoder, min_tokens, max_tokens, segment, processed_chunk, sentences,
                   sIdx, current_content, split_units>>

NoSegment == [main_heading |-> "", content |-> <<>>, level |-> 0]

NoChunk == [chunk_id |-> 0, source_url |-> "", main_heading |-> "",
            content |-> <<>>, summary |-> ""]

\* no call of process_chunk made or under way
CpLocalsIdle ==
    /\ cpPc = "idle"
    /\ segment = NoSegment
    /\ processed_chunk = NoChunk
    /\ sentences = <<>>
    /\ sIdx = 1
    /\ current_content = <<>>
    /\ splits = <<>>
    /\ split_units = <<>>
    /\ out = <<>>
    /\ next_uuid = 1

\* the default ChunkProcessor(token_counter), no call made
CpIdle ==
    /\ encoder = "char"
    /\ min_tokens = 800
    /\ max_tokens = 1200
    /\ CpLocalsIdle

(* ---- main: the distribution of chunk sizes ---- *)

\* lengths around the limits of the ranges
Sizes == {0, 1, 499, 500, 501, 999, 1000, 1001, 1499, 1500, 1501, 1999, 2000, 2001, 2002}

\* size_ranges; the last range ends at float('inf')
SizeRanges == << [start |-> 0, end |-> 500, open |-> FALSE],
                 [start |-> 501, end |-> 1000, open |-> FALSE],
                 [start |-> 1001, end |-> 1500, open |-> FALSE],
                 [start |-> 1501, end |-> 2000, open |-> FALSE],
                 [start |-> 2001, end |-> 0, open |-> TRUE] >>

\* `start <= size < end`
InRange(size, r) == r.start <= size /\ (r.open \/ size < r.end)

\* sum(start <= size < end for size in chunk_sizes)
CountInRange(sizes, r) == Cardinality({k \in 1..Len(sizes) : InRange(sizes[k], r)})

ComputeSizeDistribution ==
    /\ histPc = "start"
    /\ size_distribution' = [b \in 1..Len(SizeRanges) |-> CountInRange(chunk_sizes, SizeRanges[b])]
    /\ histPc' = "done"
    /\ UNCHANGED chunk_sizes

\* no statistics under way
HistIdle ==
    /\ histPc = "done"
    /\ chunk_sizes = <<>>
    /\ size_distribution = <<>>

(* ---- main ---- *)

\* SummaryGenerator(max_concurrent_requests=3000)
MainConcurrentRequests == 3000

PageUrls == <<"url1", "url2", "url3", "url4">>

\* a segment content that fits every budget of the model, and one that is
\* split into two parts under every budget of the model
ShortContent == <<"a">>
LongContent == <<"a", ".", " ", "a">>

SampleMarkdown == <<"a", ".", " ", "a">>

\* the segments HeadingCollector leaves for the contents cs: the first under
\* an h1, the others under h2
SegmentsOf(cs) ==
    [k \in 1..Len(cs) |->
        [main_heading |-> Headings[IF k = 1 THEN 1 ELSE 2], content |-> cs[k],
         level |-> IF k = 1 THEN 1 ELSE 2]]

\* the pages of raw_data['data'], each with what md.convert makes of its
\* markdown: an empty page, a page without headings, a page of one short
\* segment, a page of one long segment, a page of a short and a long segment
PageBodies ==
    {[markdown |-> <<>>, segments |-> <<>>]}
      \cup {[markdown |-> SampleMarkdown, segments |-> SegmentsOf(cs)] :
               cs \in {<<>>, <<ShortContent>>, <<LongContent>>,
                       <<ShortContent, LongContent>>}}

RECURSIVE SplitLoop(_, _, _, _, _)
\* the loop of split_large_chunk from sentence k on
SplitLoop(enc, max, sents, k, st) ==
    IF k > Len(sents) THEN st
    ELSE SplitLoop(enc, max, sents, k + 1, SplitStep(enc, max, st, sents[k]))

SplitLargeChunk(enc, max, chunk, uuid0) ==
    BuildParts(chunk,
               FinalSplits(SplitLoop(enc, max, SplitOnDelimiter(chunk.content), 1,
                                     [current_content |-> <<>>, splits |-> <<>>,
                                      split_units |-> <<>>])),
               uuid0)

\* process_chunk as one call; uuid0 is the first fresh identifier
ProcessChunkResult(enc, max, seg, url, uuid0) ==
    LET pchunk == NewProcessedChunk(seg, url, uuid0)
    IN IF NeedsSplit(CountTokens(enc, pchunk.content), max)
       THEN SplitLargeChunk(enc, max, pchunk, uuid0 + 1)
       ELSE <<pchunk>>

RECURSIVE ContentLength(_)
\* sum(len(chunk['content']) for chunk in processed_chunks)
ContentLength(cs) ==
    IF cs = <<>> THEN 0 ELSE Len(cs[1].content) + ContentLength(Tail(cs))

Abs(x) == IF x < 0 THEN 0 - x ELSE x

\* validate_completeness: "mismatch" is the `return False`, "raise" the
\* ZeroDivisionError of the division by original_content_length
CompletenessOutcome(content, cs, h1, h2) ==
    IF h1 + h2 # Len(cs) THEN "mismatch"
    ELSE IF Len(content) = 0 THEN "raise"
    ELSE "ok"

\* `length_difference > 0.05`
LengthWarning(content, cs) ==
    100 * Abs(Len(content) - ContentLength(cs)) > 5 * Len(content)

\* summarisation of a page waits for the first segment only
FirstChunkCreated == segIdx > 1 \/ page_segments = <<>>

\* the loop over md.heading_collector.chunks has ended
AllChunksCreated == segIdx > Len(page_segments)

\* content = page.get('markdown', ''); md.convert(content)
MainConvert ==
    /\ mainPc = "page"
    /\ pageIdx <= Len(raw_data)
    /\ page_segments' = raw_data[pageIdx].segments
    /\ page_h1' = Cardinality({k \in 1..Len(raw_data[pageIdx].segments) :
                                  raw_data[pageIdx].segments[k].level = 1})
    /\ page_h2' = Cardinality({k \in 1..Len(raw_data[pageIdx].segments) :
                                  raw_data[pageIdx].segments[k].level = 2})
    /\ processed_chunks' = <<>>
    /\ summarized_chunks' = <<>>
    /\ segIdx' = 1
    /\ mainPc' = "process"
    /\ UNCHANGED <<raw_data, pageIdx, all_processed_chunks, discarded_ids, log, saved_output>>
    /\ UNCHANGED <<sumVars, cpVars>>

\* processed_chunks.extend(chunk_processor.process_chunk(chunk, source_url))
MainProcessChunk ==
    /\ mainPc = "process"
    /\ segIdx <= Len(page_segments)
    /\ LET made == ProcessChunkResult(encoder, max_tokens, page_segments[segIdx],
                                      PageUrls[pageIdx], next_uuid)
           wasSplit == NeedsSplit(CountTokens(encoder,
                                              Strip(page_segments[segIdx].content)),
                                  max_tokens)
       IN /\ processed_chunks' = processed_chunks \o made
          /\ next_uuid' = next_uuid + 1 + (IF wasSplit THEN Len(made) ELSE 0)
          /\ discarded_ids' = IF wasSplit THEN discarded_ids \cup {next_uuid}
                              ELSE discarded_ids
    /\ segIdx' = segIdx + 1
    /\ UNCHANGED <<raw_data, mainPc, pageIdx, page_segments, page_h1, page_h2,
                   summarized_chunks, all_processed_chunks, log, saved_output>>
    /\ UNCHANGED <<sumVars, encoder, min_tokens, max_tokens, cpPc, segment,
                   processed_chunk, sentences, sIdx, current_content, splits,
                   split_units, out>>

\* summary_generator.generate_summaries(processed_chunks) is entered; the
\* service answers every call of the run
MainGenerateSummaries ==
    /\ mainPc = "process"
    /\ AllChunksCreated
    /\ gsPc = "idle"
    /\ mainPc' = "summarize"
    /\ gsPc' = "gather"
    /\ chunks' = processed_chunks
    /\ input' = processed_chunks
    /\ plan' = [i \in 1..Len(processed_chunks) |-> 0]
    /\ final' = [i \in 1..Len(processed_chunks) |-> "ok"]
    /\ attempts' = [i \in 1..Len(processed_chunks) |-> 0]
    /\ pc' = [i \in 1..Len(processed_chunks) |-> "new"]
    /\ held' = [i \in 1..Len(processed_chunks) |-> 0]
    /\ writes' = [i \in 1..Len(processed_chunks) |-> 0]
    /\ sem_value' = max_concurrent_requests
    /\ waiters' = <<>>
    /\ completed' = <<>>
    /\ UNCHANGED <<max_concurrent_requests, result>>
    /\ UNCHANGED <<raw_data, pageIdx, page_segments, page_h1, page_h2, segIdx,
                   processed_chunks, summarized_chunks, all_processed_chunks,
                   discarded_ids, log, saved_output>>
    /\ UNCHANGED cpVars

\* generate_summaries has returned: all_processed_chunks.extend(summarized_chunks);
\* the frame of the call is gone
MainCollect ==
    /\ mainPc = "summarize"
    /\ gsPc = "returned"
    /\ summarized_chunks' = result
    /\ all_processed_chunks' = all_processed_chunks \o result
    /\ mainPc' = "validate"
    /\ gsPc' = "idle"
    /\ chunks' = <<>>
    /\ input' = <<>>
    /\ plan' = <<>>
    /\ final' = <<>>
    /\ attempts' = <<>>
    /\ pc' = <<>>
    /\ held' = <<>>
    /\ writes' = <<>>
    /\ sem_value' = 0
    /\ waiters' = <<>>
    /\ completed' = <<>>
    /\ result' = <<>>
    /\ UNCHANGED <<max_concurrent_requests, raw_data, pageIdx, page_segments, page_h1,
                   page_h2, segIdx, processed_chunks, discarded_ids, log, saved_output>>
    /\ UNCHANGED cpVars

RequiredKeys == {"chunk_id", "source_url", "main_heading", "content", "summary"}

\* validate_chunk_structure
ValidChunkStructure(chunk) == RequiredKeys \subseteq DOMAIN chunk

\* the errors of the loop over summarized_chunks
StructureErrors(cs, p) ==
    {[kind |-> "structure", page |-> p, original |-> 0, processed |-> k] :
        k \in {j \in 1..Len(cs) : ~ValidChunkStructure(cs[j])}}

\* the rest of the iteration once validate_completeness has returned
NextPage(entries) ==
    /\ log' = log \cup entries \cup StructureErrors(summarized_chunks, pageIdx)
    /\ pageIdx' = pageIdx + 1
    /\ mainPc' = "page"
    /\ UNCHANGED <<raw_data, page_segments, page_h1, page_h2, segIdx, processed_chunks,
                   summarized_chunks, all_processed_chunks, discarded_ids, saved_output>>
    /\ UNCHANGED <<sumVars, cpVars>>

\* validate_completeness returns False and main logs the failed validation
MainValidationFails ==
    /\ mainPc = "validate"
    /\ CompletenessOutcome(raw_data[pageIdx].markdown, summarized_chunks,
                           page_h1, page_h2) = "mismatch"
    /\ NextPage({[kind |-> "mismatch", page |-> pageIdx,
                  original |-> page_h1 + page_h2,
                  processed |-> Len(summarized_chunks)]})

\* validate_completeness raises; main has no handler and ends before the
\* output file is opened
MainValidationRaises ==
    /\ mainPc = "validate"
    /\ CompletenessOutcome(raw_data[pageIdx].markdown, summarized_chunks,
                           page_h1, page_h2) = "raise"
    /\ mainPc' = "raised"
    /\ UNCHANGED <<raw_data, pageIdx, page_segments, page_h1, page_h2, segIdx,
                   processed_chunks, summarized_chunks, all_processed_chunks,
                   discarded_ids, log, saved_output>>
    /\ UNCHANGED <<sumVars, cpVars>>

\* validate_completeness returns True, after a warning when the lengths differ
MainValidationPasses ==
    /\ mainPc = "validate"
    /\ CompletenessOutcome(raw_data[pageIdx].markdown, summarized_chunks,
                           page_h1, page_h2) = "ok"
    /\ NextPage(IF LengthWarning(raw_data[pageIdx].markdown, summarized_chunks)
                THEN {[kind |-> "length", page |-> pageIdx,
                       original |-> Len(raw_data[pageIdx].markdown),
                       processed |-> ContentLength(summarized_chunks)]}
                ELSE {})

\* json.dump(all_processed_chunks, f, indent=2) after the last page
MainSave ==
    /\ mainPc = "page"
    /\ pageIdx > Len(raw_data)
    /\ saved_output' = all_processed_chunks
    /\ mainPc' = "saved"
    /\ UNCHANGED <<raw_data, pageIdx, page_segments, page_h1, page_h2, segIdx,
                   processed_chunks, summarized_chunks, all_processed_chunks,
                   discarded_ids, log>>
    /\ UNCHANGED <<sumVars, cpVars>>

\* the locals of main at the top of the first iteration
MainLocalsFresh ==
    /\ pageIdx = 1
    /\ page_segments = <<>>
    /\ page_h1 = 0
    /\ page_h2 = 0
    /\ segIdx = 1
    /\ processed_chunks = <<>>
    /\ summarized_chunks = <<>>
    /\ all_processed_chunks = <<>>
    /\ discarded_ids = {}
    /\ log = {}
    /\ saved_output = <<>>

\* main is not run
MainIdle ==
    /\ mainPc = "idle"
    /\ raw_data = <<>>
    /\ MainLocalsFresh

(* ---- ClaudeAssistant.generate_response ---- *)

UserInputs == {"question 1", "question 2"}

AssistantTexts == {"answer 1", "answer 2"}

\* what call_tool hands back for a rag_search
ToolResults == {"[]", "[\"doc\"]"}

TextBlock(t) == [type |-> "text", text |-> t, name |-> "", id |-> ""]

ToolUseBlock(n, k) == [type |-> "tool_use", text |-> "", name |-> n, id |-> k]

\* the blocks a response that stopped for tool use may carry
Blocks ==
    {TextBlock(t) : t \in AssistantTexts}
      \cup {ToolUseBlock("rag_search", "toolu_1"), ToolUseBlock("other_tool", "toolu_2")}

\* the responses of the first call: one that ends the turn with a text, or
\* one that stops for tool use and carries at least one tool_use block
FirstResponses ==
    {[stop_reason |-> "end_turn", content |-> <<TextBlock(t)>>] : t \in AssistantTexts}
      \cup {[stop_reason |-> "tool_use", content |-> c] :
               c \in {d \in UNION {[1..n -> Blocks] : n \in 1..MaxResponseBlocks} :
                         \E k \in 1..Len(d) : d[k].type = "tool_use"}}

NoResponse == [stop_reason |-> "", content |-> <<>>]

\* a call that returned without a return statement
ReturnsNone == [is_none |-> TRUE, text |-> ""]

ReturnsText(t) == [is_none |-> FALSE, text |-> t]

\* update_conversation_history
UpdateConversationHistory(history, u, a) ==
    history \o << [role |-> "user", content |-> u],
                  [role |-> "assistant", content |-> a] >>

\* the tool-use branch ends after update_conversation_history: the function
\* falls off its end
ToolPathReturn(a) == ReturnsNone

\* messages = self.conversation_history + [...]; the first messages.create
GenerateResponse(u, r) ==
    /\ caPc \in {"idle", "returned"}
    /\ turns < MaxTurns
    /\ turns' = turns + 1
    /\ user_input' = u
    /\ messages' = Append(conversation_history, [role |-> "user", content |-> u])
    /\ response' = r
    /\ blockIdx' = 1
    /\ assistant_response' = ""
    /\ returned' = ReturnsNone
    /\ caPc' = IF r.stop_reason = "tool_use" THEN "tools" ELSE "answer"
    /\ UNCHANGED conversation_history

\* the else branch: the text of the first response is recorded and returned
AnswerDirectly ==
    /\ caPc = "answer"
    /\ assistant_response' = response.content[1].text
    /\ conversation_history' =
          UpdateConversationHistory(conversation_history, user_input,
                                    response.content[1].text)
    /\ returned' = ReturnsText(response.content[1].text)
    /\ caPc' = "returned"
    /\ UNCHANGED <<turns, user_input, messages, response, blockIdx>>

\* one block of the loop: a rag_search block is answered by call_tool and
\* the result appended to messages
ToolBlockSearched(res) ==
    /\ caPc = "tools"
    /\ blockIdx <= Len(response.content)
    /\ response.content[blockIdx].type = "tool_use"
    /\ response.content[blockIdx].name = "rag_search"
    /\ messages' = Append(messages,
                          [role |-> "user", type |-> "tool_result",
                           tool_use_id |-> response.content[blockIdx].id,
                           content |-> res])
    /\ blockIdx' = blockIdx + 1
    /\ UNCHANGED <<conversation_history, caPc, turns, user_input, response,
                   assistant_response, returned>>

\* one block of the loop that is not a rag_search
ToolBlockSkipped ==
    /\ caPc = "tools"
    /\ blockIdx <= Len(response.content)
    /\ ~(/\ response.content[blockIdx].type = "tool_use"
         /\ response.content[blockIdx].name = "rag_search")
    /\ blockIdx' = blockIdx + 1
    /\ UNCHANGED <<conversation_history, caPc, turns, user_input, messages, response,
                   assistant_response, returned>>

\* the second messages.create after the loop; its text is recorded
FinalResponse(t) ==
    /\ caPc = "tools"
    /\ blockIdx > Len(response.content)
    /\ assistant_response' = t
    /\ conversation_history' = UpdateConversationHistory(conversation_history, user_input, t)
    /\ returned' = ToolPathReturn(t)
    /\ caPc' = "returned"
    /\ UNCHANGED <<turns, user_input, messages, response, blockIdx>>

\* the assistant after __init__
CaIdle ==
    /\ conversation_history = <<>>
    /\ caPc = "idle"
    /\ turns = 0
    /\ user_input = ""
    /\ messages = <<>>
    /\ response = NoResponse
    /\ blockIdx = 1
    /\ assistant_response = ""
    /\ returned = ReturnsNone

\* the summariser before generate_summaries is called
SumIdle ==
    /\ gsPc = "idle"
    /\ chunks = <<>>
    /\ input = <<>>
    /\ plan = <<>>
    /\ final = <<>>
    /\ attempts = <<>>
    /\ pc = <<>>
    /\ held = <<>>
    /\ writes = <<>>
    /\ sem_value = 0
    /\ waiters = <<>>
    /\ completed = <<>>
    /\ result = <<>>

\* the collector as HeadingCollector.__init__ leaves it, before any walk
HcFresh ==
    /\ root = <<>>
    /\ hcPc = "done"
    /\ hcPos = 1
    /\ hc_chunks = <<>>
    /\ current_chunk = <<>>
    /\ h1_count = 0
    /\ h2_count = 0
    /\ h3_count = 0

Init ==
    /\ max_concurrent_requests \in (1..MaxLimit) \cup {MainConcurrentRequests}
    /\ SumIdle
    /\ HcFresh
    /\ CpIdle
    /\ HistIdle
    /\ MainIdle
    /\ CaIdle

Next ==
    \/ \E n \in 0..MaxChunks :
         \E pl \in [1..n -> 0..MaxThrottle], fi \in [1..n -> {"ok", "fail"}] :
           GenerateSummaries(n, pl, fi) /\ UNCHANGED <<hcVars, cpVars, histVars, mainVars, caVars>>
    \/ \E i \in 1..Len(chunks) : StartTask(i) /\ UNCHANGED <<hcVars, cpVars, histVars, mainVars, caVars>>
    \/ \E i \in 1..Len(chunks) : ResumeWaiter(i) /\ UNCHANGED <<hcVars, cpVars, histVars, mainVars, caVars>>
    \/ \E i \in 1..Len(chunks) : CallSucceeds(i) /\ UNCHANGED <<hcVars, cpVars, histVars, mainVars, caVars>>
    \/ \E i \in 1..Len(chunks) : CallThrottled(i) /\ UNCHANGED <<hcVars, cpVars, histVars, mainVars, caVars>>
    \/ \E i \in 1..Len(chunks) : BackoffElapsed(i) /\ UNCHANGED <<hcVars, cpVars, histVars, mainVars, caVars>>
    \/ \E i \in 1..Len(chunks) : CallFails(i) /\ UNCHANGED <<hcVars, cpVars, histVars, mainVars, caVars>>
    \/ ReturnSummaries /\ UNCHANGED <<hcVars, cpVars, histVars, mainVars, caVars>>

Spec == Init /\ [][Next]_vars

\* the event loop runs every ready task, every call and every sleep ends
FairSpec == Spec /\ WF_vars(Next)

\* a fresh HeadingCollector about to walk a tree
InitSeg ==
    /\ max_concurrent_requests = 1
    /\ SumIdle
    /\ root \in UNION {Trees(n) : n \in 0..MaxBlocks}
    /\ hcPc = "walk"
    /\ hcPos = 1
    /\ hc_chunks = <<>>
    /\ current_chunk = <<>>
    /\ h1_count = 0
    /\ h2_count = 0
    /\ h3_count = 0
    /\ CpIdle
    /\ HistIdle
    /\ MainIdle
    /\ CaIdle

NextSeg ==
    \/ OnHeading /\ UNCHANGED <<sumVars, cpVars, histVars, mainVars, caVars>>
    \/ OnH3 /\ UNCHANGED <<sumVars, cpVars, histVars, mainVars, caVars>>
    \/ OnOtherBlock /\ UNCHANGED <<sumVars, cpVars, histVars, mainVars, caVars>>
    \/ EndOfInput /\ UNCHANGED <<sumVars, cpVars, histVars, mainVars, caVars>>

SpecSeg == InitSeg /\ [][NextSeg]_vars

\* a ChunkProcessor with a token counter and a budget, no call made yet
InitChunk ==
    /\ max_concurrent_requests = 1
    /\ SumIdle
    /\ HcFresh
    /\ encoder \in Encoders
    /\ max_tokens \in 1..MaxTokens
    /\ min_tokens \in 0..(max_tokens - 1)
    /\ CpLocalsIdle
    /\ HistIdle
    /\ MainIdle
    /\ CaIdle

NextChunk ==
    \/ /\ cpPc = "idle"
       /\ \E seg \in Segments, url \in Range(Urls) :
            ProcessChunk(seg, url) /\ UNCHANGED <<sumVars, hcVars, histVars, mainVars, caVars>>
    \/ SentenceFlushesBuffer /\ UNCHANGED <<sumVars, hcVars, histVars, mainVars, caVars>>
    \/ SentenceEmittedAlone /\ UNCHANGED <<sumVars, hcVars, histVars, mainVars, caVars>>
    \/ SentenceAppended /\ UNCHANGED <<sumVars, hcVars, histVars, mainVars, caVars>>
    \/ SplitReturns /\ UNCHANGED <<sumVars, hcVars, histVars, mainVars, caVars>>

SpecChunk == InitChunk /\ [][NextChunk]_vars

\* the chunk sizes of a finished run, before the distribution is computed
InitHist ==
    /\ max_concurrent_requests = 1
    /\ SumIdle
    /\ HcFresh
    /\ CpIdle
    /\ MainIdle
    /\ CaIdle
    /\ histPc = "start"
    /\ chunk_sizes \in UNION {[1..n -> Sizes] : n \in 1..MaxSizes}
    /\ size_distribution = <<>>

NextHist ==
    \/ ComputeSizeDistribution /\ UNCHANGED <<sumVars, hcVars, cpVars, mainVars, caVars>>

SpecHist == InitHist /\ [][NextHist]_vars

\* main after load_json_data and the three constructors; the token budget is
\* scaled to the texts of the model
InitMain ==
    /\ max_concurrent_requests = MainConcurrentRequests
    /\ SumIdle
    /\ HcFresh
    /\ HistIdle
    /\ encoder = "char"
    /\ min_tokens = 0
    /\ max_tokens = MaxTokens
    /\ CpLocalsIdle
    /\ raw_data \in UNION {[1..n -> PageBodies] : n \in 1..MaxPages}
    /\ mainPc = "page"
    /\ MainLocalsFresh
    /\ CaIdle

NextMain ==
    \/ MainConvert /\ UNCHANGED <<hcVars, histVars, caVars>>
    \/ MainProcessChunk /\ UNCHANGED <<hcVars, histVars, caVars>>
    \/ MainGenerateSummaries /\ UNCHANGED <<hcVars, histVars, caVars>>
    \/ /\ mainPc = "summarize"
       /\ \E i \in 1..Len(chunks) : StartTask(i) /\ UNCHANGED <<hcVars, cpVars, histVars, mainVars, caVars>>
    \/ /\ mainPc = "summarize"
       /\ \E i \in 1..Len(chunks) : CallSucceeds(i) /\ UNCHANGED <<hcVars, cpVars, histVars, mainVars, caVars>>
    \/ /\ mainPc = "summarize"
       /\ ReturnSummaries /\ UNCHANGED <<hcVars, cpVars, histVars, mainVars, caVars>>
    \/ MainCollect /\ UNCHANGED <<hcVars, histVars, caVars>>
    \/ MainValidationFails /\ UNCHANGED <<hcVars, histVars, caVars>>
    \/ MainValidationRaises /\ UNCHANGED <<hcVars, histVars, caVars>>
    \/ MainValidationPasses /\ UNCHANGED <<hcVars, histVars, caVars>>
    \/ MainSave /\ UNCHANGED <<hcVars, histVars, caVars>>

SpecMain == InitMain /\ [][NextMain]_vars

InitAssistant ==
    /\ max_concurrent_requests = 1
    /\ SumIdle
    /\ HcFresh
    /\ CpIdle
    /\ HistIdle
    /\ MainIdle
    /\ CaIdle

NextAssistant ==
    \/ /\ caPc \in {"idle", "returned"}
       /\ \E u \in UserInputs, r \in FirstResponses : GenerateResponse(u, r)
       /\ UNCHANGED <<sumVars, hcVars, cpVars, histVars, mainVars>>
    \/ AnswerDirectly /\ UNCHANGED <<sumVars, hcVars, cpVars, histVars, mainVars>>
    \/ /\ caPc = "tools"
       /\ \E res \in ToolResults : ToolBlockSearched(res)
       /\ UNCHANGED <<sumVars, hcVars, cpVars, histVars, mainVars>>
    \/ ToolBlockSkipped /\ UNCHANGED <<sumVars, hcVars, cpVars, histVars, mainVars>>
    \/ /\ caPc = "tools"
       /\ \E t \in AssistantTexts : FinalResponse(t)
       /\ UNCHANGED <<sumVars, hcVars, cpVars, histVars, mainVars>>

SpecAssistant == InitAssistant /\ [][NextAssistant]_vars

TypeOK ==
    /\ max_concurrent_requests \in (1..MaxLimit) \cup {MainConcurrentRequests}
    /\ gsPc \in {"idle", "gather", "returned"}
    /\ \A i \in 1..Len(chunks) : pc[i] \in {"new", "waiting", "woken", "call", "sleep", "done"}
    /\ sem_value \in 0..max_concurrent_requests

(* ======================= properties ======================= *)

Returned == gsPc = "returned"

Batch == 1..Len(chunks)

InFlight == {i \in Batch : pc[i] = "call"}

\* C1: at every instant the number of chunks whose completion call has been
\* issued and has not resolved is at most the concurrency limit
C1_InFlightWithinLimit == Cardinality(InFlight) <= max_concurrent_requests

C1_Witness ==
    /\ Cardinality(InFlight) = max_concurrent_requests
    /\ \E i \in Batch : pc[i] = "waiting"

\* C2: when the service throttles exactly the first call of every chunk and
\* answers every later call, generate_summaries eventually returns with every
\* chunk carrying the answered text
C2_ThrottledOnceReturns ==
    (gsPc = "gather" /\ Len(chunks) >= 1
        /\ \A i \in Batch : plan[i] = 1 /\ final[i] = "ok")
    ~> (Returned /\ \A i \in Batch : result[i].summary = ResponseText(input[i]))

\* C3: a chunk throttled k consecutive times and then answered, for any k, is
\* retried after each throttle and ends with the answered text; the batch
\* never gets stuck
C3_AnyThrottleCountReturns ==
    \A k \in 0..MaxThrottle :
        (gsPc = "gather" /\ \E i \in Batch : plan[i] = k /\ final[i] = "ok"
            /\ \A j \in Batch : j # i => plan[j] = 0)
        ~> (Returned /\ \A i \in Batch :
                final[i] = "ok" => /\ attempts[i] = plan[i] + 1
                                   /\ result[i].summary = ResponseText(input[i]))

\* C4: a call that fails with a non-throttling exception leaves its chunk
\* with the empty summary, every other chunk gets the outcome of its own
\* call, and a batch whose calls only succeed or fail returns
C4_FailureIsContained ==
    /\ [](Returned =>
            \A i \in Batch :
                /\ final[i] = "fail" => result[i].summary = ""
                /\ final[i] = "ok" => result[i].summary = ResponseText(input[i]))
    /\ ((gsPc = "gather" /\ \A i \in Batch : plan[i] = 0) ~> Returned)

C4_Witness ==
    /\ Returned
    /\ \E i, j \in Batch :
        /\ final[i] = "fail" /\ result[i].summary = ""
        /\ final[j] = "ok" /\ result[j].summary = ResponseText(input[j])
        /\ completed[1] = i

\* C5: the returned list has the length of the input and its i-th element is
\* the i-th input chunk, whatever the order in which the calls finish
C5_InputOrderPreserved ==
    Returned =>
        /\ Len(result) = Len(input)
        /\ \A i \in 1..Len(input) : result[i].chunk_id = input[i].chunk_id

C5_Witness ==
    /\ Returned
    /\ Len(input) >= 2
    /\ completed[1] # 1
    /\ \E i \in Batch : attempts[i] >= 2
    /\ \E i \in Batch : final[i] = "fail"

\* C6: when generate_summaries returns no chunk has a call in flight, a
\* backoff pending or a retry outstanding, and every summary is decided by
\* an answer or by a non-throttling failure
C6_ReturnsAfterAllDecided ==
    Returned =>
        \A i \in Batch :
            /\ pc[i] = "done"
            /\ i \notin Range(waiters)
            /\ writes[i] >= 1
            /\ \/ final[i] = "ok" /\ chunks[i].summary = ResponseText(input[i])
               \/ final[i] = "fail" /\ chunks[i].summary = ""

C6_Witness ==
    /\ Returned
    /\ Len(chunks) >= 2
    /\ \E i \in Batch : attempts[i] >= 2 /\ completed[Len(completed)] = i

\* C7: a finished task holds no slot on any path, the slots are conserved,
\* and when generate_summaries returns all slots are free
C7_SlotsReleased ==
    /\ \A i \in Batch : pc[i] = "done" => held[i] = 0
    /\ Returned => sem_value = max_concurrent_requests /\ waiters = <<>>

C7_Witness ==
    /\ Returned
    /\ \E i \in Batch : final[i] = "fail" /\ attempts[i] = 1
    /\ \E i \in Batch : final[i] = "ok" /\ attempts[i] >= 2

(* ---- HeadingCollector ---- *)

Walked == hcPc = "done"

HeadingPositions == {k \in 1..Len(root) : root[k].tag \in {"h1", "h2"}}

\* position of the j-th h1/h2 heading of root
HeadingAt(j) ==
    CHOOSE k \in HeadingPositions :
        Cardinality({m \in HeadingPositions : m < k}) = j - 1

\* end of the segment opened at position k: the next h1/h2 or the end of input
SegmentEnd(k) ==
    LET later == {m \in HeadingPositions : m > k}
    IN IF later = {} THEN Len(root) + 1
       ELSE CHOOSE m \in later : \A x \in later : m <= x

RECURSIVE Markup(_, _)
\* serialized forms of root[from..to-1], in document order
Markup(from, to) ==
    IF from >= to THEN <<>> ELSE Serialize(root[from]) \o Markup(from + 1, to)

\* C8: after run() the number of emitted segments equals h1_count + h2_count
C8_SegmentsEqualHeadingCount == Walked => Len(hc_chunks) = h1_count + h2_count

C8_Witness ==
    /\ Walked
    /\ Len(hc_chunks) >= 2
    /\ \E k \in HeadingPositions : k + 1 \in HeadingPositions
    /\ \E j \in 1..Len(hc_chunks) : hc_chunks[j].content = <<>>

\* C9: segments come in document order and the content of each is the
\* markup of exactly the blocks between its heading and the next h1/h2
\* heading, h3 blocks included
C9_SegmentContent ==
    Walked =>
        /\ Len(hc_chunks) = Cardinality(HeadingPositions)
        /\ \A j \in 1..Len(hc_chunks) :
            /\ hc_chunks[j].main_heading = root[HeadingAt(j)].text
            /\ hc_chunks[j].level = (IF root[HeadingAt(j)].tag = "h1" THEN 1 ELSE 2)
            /\ hc_chunks[j].content = Markup(HeadingAt(j) + 1, SegmentEnd(HeadingAt(j)))

C9_Witness ==
    /\ Walked
    /\ Len(hc_chunks) >= 2
    /\ \E k \in HeadingPositions :
        /\ k + 2 <= Len(root)
        /\ root[k + 1].tag = "h3"
        /\ root[k + 2].tag = "p"
        /\ \E j \in 1..Len(hc_chunks) :
            hc_chunks[j].content = Serialize(root[k + 1]) \o Serialize(root[k + 2])

\* C10: blocks before the first h1/h2 heading are in no segment although
\* their h3 blocks are counted, and a tree without h1/h2 gives no segment
C10_LeadingBlocksDropped ==
    Walked =>
        /\ \A k \in 1..Len(root) :
            (\A m \in HeadingPositions : k < m) =>
                \A j \in 1..Len(hc_chunks) :
                    /\ root[k].text \notin Range(hc_chunks[j].content)
                    /\ root[k].text # hc_chunks[j].main_heading
        /\ h3_count = Cardinality({k \in 1..Len(root) : root[k].tag = "h3"})
        /\ HeadingPositions = {} => hc_chunks = <<>>

C10_Witness ==
    /\ Walked
    /\ Len(root) >= 3
    /\ root[1].tag = "h3"
    /\ root[2].tag = "p"
    /\ HeadingPositions # {}
    /\ h3_count >= 1
    /\ Len(hc_chunks) >= 1
(* ---- ChunkProcessor ---- *)

ChunkDone == cpPc = "done"

\* process_chunk handed the chunk to split_large_chunk
Delegated == ChunkDone /\ sentences # <<>>

RECURSIVE Flatten(_)
Flatten(ss) == IF ss = <<>> THEN <<>> ELSE Head(ss) \o Flatten(Tail(ss))

RECURSIVE DropTrailingDots(_)
DropTrailingDots(t) ==
    IF t # <<>> /\ t[Len(t)] = "." THEN DropTrailingDots(SubSeq(t, 1, Len(t) - 1)) ELSE t

\* a unit without the whitespace around it and without the period that
\* closes it
UnitText(u) == Strip(DropTrailingDots(Strip(u)))

UnitTexts(us) == [k \in 1..Len(us) |-> UnitText(us[k])]

C12_OverBudgetOnlyOversizeUnit ==
    Delegated =>
        \A k \in 1..Len(out) :
            CountTokens(encoder, out[k].content) > max_tokens =>
                /\ Len(split_units[k]) = 1
                /\ CountTokens(encoder, split_units[k][1]) > max_tokens

\* C13: k splits give k chunks, in emission order, headed "<heading> (Part i)"
\* for i = 1..k, with the source_url of the original and an empty summary
C13_PartsNumbered ==
    Delegated =>
        /\ Len(out) = Len(splits)
        /\ \A i \in 1..Len(out) :
            /\ out[i].main_heading =
                  segment.main_heading \o " (Part " \o ToString(i) \o ")"
            /\ out[i].content = splits[i]
            /\ out[i].source_url = processed_chunk.source_url
            /\ out[i].summary = ""

C13_Witness ==
    /\ Delegated
    /\ Len(out) >= 3
    /\ out[3].main_heading = "Usage (Part 3)"
    /\ out[3].source_url = "url2"

\* C14: process_chunk returns one chunk with the heading of the segment and
\* its stripped content whenever the token count is at most max_tokens, it
\* delegates to split_large_chunk only above max_tokens, and every segment
\* gives at least one chunk
C14_OneChunkWithinBudget ==
    ChunkDone =>
        LET stripped == Strip(segment.content)
            count == CountTokens(encoder, stripped)
        IN /\ count <= max_tokens =>
                /\ ~Delegated
                /\ Len(out) = 1
                /\ out[1].main_heading = segment.main_heading
                /\ out[1].content = stripped
           /\ Delegated <=> count > max_tokens
           /\ Len(out) >= 1

C14_Witness ==
    /\ ChunkDone
    /\ CountTokens(encoder, Strip(segment.content)) = max_tokens
    /\ min_tokens >= 1
    /\ Len(out) = 1
    /\ out[1].content # segment.content

\* C17: every chunk produced by process_chunk / split_large_chunk has
\* non-empty content
C17_ContentNonEmpty ==
    ChunkDone => \A k \in 1..Len(out) : out[k].content # <<>>

(* ---- main: validation, identifiers, ordering ---- *)

\* the pages whose iteration has ended
PagesDone == 1..(pageIdx - 1)

\* some segment of page p is replaced by two or more parts
HasSplitSegment(p) ==
    \E k \in 1..Len(raw_data[p].segments) :
        Len(ProcessChunkResult(encoder, max_tokens, raw_data[p].segments[k],
                               PageUrls[p], 1)) >= 2

\* C15: the heading count of a page is compared with the number of segments
\* extracted before any splitting, so a mismatch is reported only when these
\* two differ, and a page is not reported because one of its segments was
\* split into parts
C15_MismatchOnlyOnSegmentCount ==
    \A e \in log :
        e.kind = "mismatch" => e.original # Len(raw_data[e.page].segments)

\* C16: validation of a page never raises, the run goes on to the output
\* file, and the file holds every summarised chunk unmodified
C16_ValidationNeverAborts ==
    /\ mainPc # "raised"
    /\ mainPc = "saved" => saved_output = all_processed_chunks

\* every chunk the run has produced so far, in the order of production
ProducedChunks ==
    all_processed_chunks
      \o (IF mainPc \in {"process", "summarize"} THEN processed_chunks ELSE <<>>)

\* C18: the identifiers of the chunks produced over all pages are pairwise
\* distinct, the parts of a split included, and none is the identifier that
\* was generated for a chunk replaced by its parts
C18_IdsDistinct ==
    /\ \A i, j \in 1..Len(ProducedChunks) :
          i # j => ProducedChunks[i].chunk_id # ProducedChunks[j].chunk_id
    /\ \A i \in 1..Len(ProducedChunks) : ProducedChunks[i].chunk_id \notin discarded_ids
    /\ mainPc = "saved" =>
          \A i, j \in 1..Len(saved_output) :
              i # j => saved_output[i].chunk_id # saved_output[j].chunk_id

\* the output holds chunks of two pages and the parts of a split
C18_Witness ==
    /\ mainPc = "saved"
    /\ discarded_ids # {}
    /\ \E i, j \in 1..Len(saved_output) :
          /\ saved_output[i].source_url # saved_output[j].source_url
          /\ saved_output[j].main_heading = PartHeading(Headings[1], 2)

\* the reading of a range in which both listed limits belong to it
InRangeInclusive(size, r) == r.start <= size /\ (r.open \/ size <= r.end)

RECURSIVE SumSeq(_)
SumSeq(q) == IF q = <<>> THEN 0 ELSE q[1] + SumSeq(Tail(q))

\* C19: every chunk is counted in exactly one size range, a length equal to
\* the upper limit of a range included, so the counts add up to the number
\* of chunks
C19_EveryChunkCounted ==
    histPc = "done" /\ chunk_sizes # <<>> =>
        /\ SumSeq(size_distribution) = Len(chunk_sizes)
        /\ \A k \in 1..Len(chunk_sizes) :
              Cardinality({b \in 1..Len(SizeRanges) :
                              InRangeInclusive(chunk_sizes[k], SizeRanges[b])}) = 1

\* the summariser has been entered for the page and not yet left
Summarising == gsPc \in {"gather", "returned"}

\* C20: within a page no completion call is issued, and summarisation does
\* not begin, before process_chunk has run for every segment of the page;
\* the batch is then the whole list of the page's chunks
C20_SummarisedAfterAllChunks ==
    /\ mainPc = "summarize" => AllChunksCreated
    /\ Summarising =>
          /\ mainPc = "summarize"
          /\ input = processed_chunks
          /\ Len(processed_chunks) >= Len(page_segments)
    /\ (\E i \in 1..Len(attempts) : attempts[i] > 0) => Summarising /\ AllChunksCreated

\* a call is in flight for a page's chunk while the page has a segment
C20_Witness ==
    /\ mainPc = "summarize"
    /\ Len(page_segments) >= 2
    /\ \E i \in Batch : pc[i] = "call"
    /\ pageIdx = 2

(* ---- the summariser: slots during backoff, writes, frame ---- *)

\* C21: a chunk that waits out its backoff delay holds no slot, and no task
\* ever holds more than one slot
C21_NoSlotAcrossBackoff ==
    \A i \in Batch :
        /\ held[i] <= 1
        /\ pc[i] = "sleep" => held[i] = 0

\* the summary a finished chunk carries according to the answer it got
DecidedSummary(i) ==
    IF final[i] = "ok" THEN ResponseText(input[i]) ELSE FailureSummary(input[i])

\* C22: within a batch the summary of a chunk is never written by a
\* throttled attempt and never written twice; it is written once, by the
\* answer or by the failure handler, when the task of the chunk finishes,
\* however many throttled attempts came before
C22_SummaryWrittenOnce ==
    \A i \in Batch :
        /\ writes[i] <= 1
        /\ writes[i] = 1 <=> pc[i] = "done"
        /\ pc[i] # "done" => chunks[i].summary = input[i].summary
        /\ pc[i] = "done" => chunks[i].summary = DecidedSummary(i)
        /\ pc[i] = "done" => attempts[i] = plan[i] + 1

\* a chunk was throttled, retried and then written once, and the batch returned
C22_Witness ==
    /\ Returned
    /\ \E i \in Batch : plan[i] >= 1 /\ attempts[i] = plan[i] + 1 /\ writes[i] = 1

\* the fields of a chunk the summariser has no business with
Frame(c) == [chunk_id |-> c.chunk_id, source_url |-> c.source_url,
             main_heading |-> c.main_heading, content |-> c.content]

\* C23: on every path the chunk_id, source_url, main_heading and content of
\* every chunk stay as they were handed in, and the batch neither gains nor
\* loses a chunk, up to the list that is returned
C23_OnlySummaryWritten ==
    /\ Len(chunks) = Len(input)
    /\ \A i \in Batch :
          /\ DOMAIN chunks[i] = DOMAIN input[i]
          /\ Frame(chunks[i]) = Frame(input[i])
    /\ Returned =>
          /\ Len(result) = Len(input)
          /\ \A k \in 1..Len(result) :
                /\ DOMAIN result[k] = DOMAIN input[k]
                /\ Frame(result[k]) = Frame(input[k])

\* a returned batch in which one chunk went through a retry and another
\* through the failure handler
C23_Witness ==
    /\ Returned
    /\ Len(result) = 2
    /\ \E i, j \in Batch :
          /\ plan[i] >= 1 /\ final[i] = "ok" /\ result[i].summary # ""
          /\ final[j] = "fail" /\ attempts[j] >= 1

(* ---- ClaudeAssistant.generate_response ---- *)

\* the last entry of the conversation history
LastRecorded == conversation_history[Len(conversation_history)]

\* C24: on both paths generate_response returns the assistant's text that
\* it has recorded in the conversation history
C24_ReturnsRecordedText ==
    caPc = "returned" =>
        /\ LastRecorded = [role |-> "assistant", content |-> assistant_response]
        /\ returned = ReturnsText(assistant_response)

====
